---- MODULE Spec2Model ----
(***************************************************************************)
(* The expression parser of rune (crates/rune/src/ast/expr.rs): the Expr   *)
(* node model with its capability queries, and the parsing algorithm       *)
(* parse_with = attributes; parse_base; parse_chain; parse_binary over a   *)
(* token cursor.                                                           *)
(*                                                                         *)
(* A token is a record [kind, at]: its kind and its place in the stream.   *)
(* The cursor p is the number of tokens consumed so far.  A span is a pair *)
(* <<first, last>> of token places.                                        *)
(***************************************************************************)
EXTENDS Integers, Sequences, FiniteSets, TLC

VARIABLES
    tokens,              \* the token stream handed to the parser (kinds)
    eager_brace,         \* EagerBrace of the entry call
    eager_binary,        \* EagerBinary of the entry call
    pc,                  \* position inside Expr::parse_with
    pos,                 \* the cursor: tokens consumed so far
    pending_attributes,  \* parse_with's local `attributes`
    expr,                \* parse_with's local `expr` (NoExpr before parse_base)
    base,                \* the node parse_base returned (kept for inspection)
    chained,             \* the node parse_chain returned (kept for inspection)
    error,               \* the ParseError returned, NoError if none
    taken                \* what the last Expr::take_attributes call returned

vars == <<tokens, eager_brace, eager_binary, pc, pos, pending_attributes,
          expr, base, chained, error, taken>>

NoExpr == [tag |-> "None"]
NoError == [kind |-> "None"]

(***************************************************************************)
(* Token cursor                                                            *)
(***************************************************************************)
Tok(i) == [kind |-> tokens[i], at |-> i]

is_eof(p) == p >= Len(tokens)

Nth(p, n) == IF p + n + 1 <= Len(tokens) THEN tokens[p + n + 1] ELSE "EOF"

Ok(e, p) == [ok |-> TRUE, expr |-> e, pos |-> p]

OkA(e, p, as) == [ok |-> TRUE, expr |-> e, pos |-> p, attributes |-> as]

Err(kind, span, p) == [ok |-> FALSE, kind |-> kind, span |-> span, pos |-> p]

\* The error of a token that is not the one wanted: it names the token at the cursor.
ErrAt(kind, p) == Err(kind, <<p + 1, p + 1>>, p)

Min2(a, b) == IF a <= b THEN a ELSE b
Max2(a, b) == IF a >= b THEN a ELSE b

Join(s, t) == <<Min2(s[1], t[1]), Max2(s[2], t[2])>>

(***************************************************************************)
(* The Expr node model                                                     *)
(***************************************************************************)
ExprTags ==
    { "Path", "Item", "ExprAssign", "ExprWhile", "ExprLoop", "ExprFor",
      "ExprLet", "ExprIf", "ExprMatch", "ExprCall", "MacroCall",
      "ExprFieldAccess", "ExprGroup", "ExprBinary", "ExprUnary", "ExprIndex",
      "ExprBreak", "ExprYield", "ExprBlock", "ExprReturn", "ExprAwait",
      "ExprTry", "ExprSelect", "ExprClosure", "ExprLit" }

\* needs_semi with the select arm left out.
needs_semi_without_select(e) ==
    e.tag \notin {"ExprWhile", "ExprLoop", "ExprFor", "ExprIf", "ExprMatch",
                  "ExprBlock"}

needs_semi(e) ==
    CASE e.tag = "ExprWhile" -> FALSE
      [] e.tag = "ExprLoop" -> FALSE
      [] e.tag = "ExprFor" -> FALSE
      [] e.tag = "ExprIf" -> FALSE
      [] e.tag = "ExprMatch" -> FALSE
      [] e.tag = "ExprBlock" -> FALSE
      [] e.tag = "ExprSelect" -> FALSE
      [] OTHER -> TRUE

\* is_chainable with the for arm left out.
is_chainable_but_for(e) == e.tag \notin {"ExprWhile", "ExprLoop"}

is_chainable(e) ==
    CASE e.tag = "ExprWhile" -> FALSE
      [] e.tag = "ExprLoop" -> FALSE
      [] e.tag = "ExprFor" -> FALSE
      [] OTHER -> TRUE

\* ast::Item keeps the attributes in its own store.
Item_attributes(item) == item.attributes

Item_take_attributes(item) ==
    [taken |-> item.attributes, item |-> [item EXCEPT !.attributes = <<>>]]

\* A clone where take is meant: the node keeps its list.
take_clone(e) == [taken |-> e.attributes, node |-> e]

\* std::mem::take on the node's `attributes` field.
take(e) == [taken |-> e.attributes, node |-> [e EXCEPT !.attributes = <<>>]]

\* take_attributes that hands out the list and leaves it on the node as well.
take_attributes_kept(e) ==
    CASE e.tag = "Path" -> [taken |-> <<>>, node |-> e]
      [] e.tag = "Item" -> [taken |-> e.item.attributes, node |-> e]
      [] OTHER -> [taken |-> e.attributes, node |-> e]

\* take_attributes that empties the node's list and hands out nothing.
take_attributes_dropped(e) ==
    CASE e.tag = "Path" -> [taken |-> <<>>, node |-> e]
      [] e.tag = "Item" ->
            [taken |-> <<>>, node |-> [e EXCEPT !.item.attributes = <<>>]]
      [] OTHER -> [taken |-> <<>>, node |-> [e EXCEPT !.attributes = <<>>]]

\* Expr::take_attributes: the list it returns and the node it leaves.
take_attributes(e) ==
    CASE e.tag = "Path" -> [taken |-> <<>>, node |-> e]
      [] e.tag = "Item" ->
            LET r == Item_take_attributes(e.item)
            IN  [taken |-> r.taken, node |-> [e EXCEPT !.item = r.item]]
      [] OTHER -> take(e)

attributes(e) ==
    CASE e.tag = "Path" -> <<>>
      [] e.tag = "Item" -> Item_attributes(e.item)
      [] OTHER -> e.attributes

(***************************************************************************)
(* ToTokens and Spanned: a node emits its fields in declaration order, and *)
(* its span runs from its first token to its last.  The const_token and    *)
(* move_token of ExprBlock are never set by parse_base and emit nothing.   *)
(***************************************************************************)
RECURSIVE ToTokens(_), ItemsTokens(_)

\* A delimited list (call arguments, tuple items, block statements).
ItemsTokens(items) ==
    IF items = <<>> THEN <<>>
    ELSE ToTokens(Head(items).expr) \o Head(items).sep \o ItemsTokens(Tail(items))

DelimTokens(d) == <<d.open>> \o ItemsTokens(d.items) \o <<d.close>>

LitTokens(lit) ==
    CASE lit.lit = "Tuple" -> DelimTokens(lit)
      [] OTHER -> lit.tokens

ToTokens(e) ==
    CASE e.tag = "Path" -> e.path
      [] e.tag = "Item" -> e.item.attributes \o e.item.tokens
      [] e.tag = "ExprLit" -> e.attributes \o LitTokens(e.lit)
      [] e.tag = "MacroCall" -> e.attributes \o e.path \o e.rest
      [] e.tag = "ExprGroup" ->
            e.attributes \o <<e.open>> \o ToTokens(e.expr) \o <<e.close>>
      [] e.tag = "ExprClosure" ->
            e.attributes \o e.async_token \o e.args \o ToTokens(e.body)
      [] e.tag = "ExprSelect" -> e.attributes \o e.rest
      [] e.tag = "ExprUnary" -> e.attributes \o <<e.op>> \o ToTokens(e.expr)
      [] e.tag = "ExprWhile" ->
            e.attributes \o e.label \o <<e.while_token>>
                \o ToTokens(e.condition) \o DelimTokens(e.body)
      [] e.tag = "ExprLoop" ->
            e.attributes \o e.label \o <<e.loop_token>> \o DelimTokens(e.body)
      [] e.tag = "ExprFor" ->
            e.attributes \o e.label \o <<e.for_token, e.var, e.in_token>>
                \o ToTokens(e.iter) \o DelimTokens(e.body)
      [] e.tag = "ExprLet" ->
            e.attributes \o <<e.let_token, e.pat, e.eq>> \o ToTokens(e.expr)
      [] e.tag = "ExprIf" ->
            e.attributes \o <<e.if_token>> \o ToTokens(e.condition)
                \o DelimTokens(e.block)
                \o (IF e.expr_else = <<>> THEN <<>>
                    ELSE <<e.expr_else[1].else_token>>
                            \o DelimTokens(e.expr_else[1].block))
      [] e.tag = "ExprMatch" ->
            e.attributes \o <<e.match_token>> \o ToTokens(e.expr) \o e.rest
      [] e.tag = "ExprBlock" ->
            e.attributes \o e.async_token \o DelimTokens(e.block)
      [] e.tag \in {"ExprBreak", "ExprYield", "ExprReturn"} ->
            e.attributes \o <<e.keyword>>
                \o (IF e.expr.some THEN ToTokens(e.expr.value) ELSE <<>>)
      [] e.tag = "ExprIndex" ->
            e.attributes \o ToTokens(e.target) \o <<e.open>>
                \o ToTokens(e.index) \o <<e.close>>
      [] e.tag = "ExprCall" ->
            e.attributes \o ToTokens(e.expr) \o DelimTokens(e.args)
      [] e.tag = "ExprTry" ->
            e.attributes \o ToTokens(e.expr) \o <<e.try_token>>
      [] e.tag = "ExprAssign" ->
            e.attributes \o ToTokens(e.lhs) \o <<e.eq>> \o ToTokens(e.rhs)
      [] e.tag = "ExprAwait" ->
            e.attributes \o ToTokens(e.expr) \o <<e.dot, e.await_token>>
      [] e.tag = "ExprFieldAccess" ->
            e.attributes \o ToTokens(e.expr) \o <<e.dot, e.expr_field.token>>
      [] e.tag = "ExprBinary" ->
            e.attributes \o ToTokens(e.lhs) \o <<e.t1>> \o e.t2 \o ToTokens(e.rhs)

TokensSpan(ts) == <<ts[1].at, ts[Len(ts)].at>>

span(e) == TokensSpan(ToTokens(e))

(***************************************************************************)
(* Collaborators of the expression parser: the operator table, and the     *)
(* path, literal and attribute sub-parsers.                                *)
(***************************************************************************)
Idents == {"a", "b"}

LitKinds == {"1", "str", "true"}

UnaryKinds == {"!", "-", "&", "*"}

\* ast::BinOp::from_peeker: the operator at the cursor, <<>> if there is none.
BinOp_from_peeker(p) ==
    LET k == Nth(p, 0)
    IN  CASE k = "is" -> IF Nth(p, 1) = "not" THEN <<"IsNot">> ELSE <<"Is">>
          [] k = "*" -> <<"Mul">>
          [] k = "+" -> <<"Add">>
          [] k = "-" -> <<"Sub">>
          [] k = "==" -> <<"Eq">>
          [] k = "<" -> <<"Lt">>
          [] k = "&&" -> <<"And">>
          [] OTHER -> <<>>

precedence(op) ==
    CASE op \in {"Is", "IsNot"} -> 12
      [] op = "Mul" -> 11
      [] op \in {"Add", "Sub"} -> 10
      [] op \in {"Eq", "Lt"} -> 5
      [] op = "And" -> 4

is_assoc(op) == op \in {"Mul", "Add", "Sub", "And"}

\* BinOp::advance: the operator's one or two tokens, consumed.
advance(p, op) ==
    IF op = "IsNot"
    THEN [t1 |-> Tok(p + 1), t2 |-> <<Tok(p + 2)>>, pos |-> p + 2]
    ELSE [t1 |-> Tok(p + 1), t2 |-> <<>>, pos |-> p + 1]

Expect(p, kind) ==
    IF Nth(p, 0) = kind
    THEN [ok |-> TRUE, tok |-> Tok(p + 1), pos |-> p + 1]
    ELSE ErrAt("TokenMismatch", p)

\* Option<T![kind]>
parse_opt(p, kind) ==
    IF Nth(p, 0) = kind
    THEN [ok |-> TRUE, tok |-> <<Tok(p + 1)>>, pos |-> p + 1]
    ELSE [ok |-> TRUE, tok |-> <<>>, pos |-> p]

\* Vec<ast::Attribute>: every attribute at the cursor (one token stands for one).
RECURSIVE parse_attributes(_, _)
parse_attributes(p, acc) ==
    IF Nth(p, 0) = "#[attr]"
    THEN parse_attributes(p + 1, Append(acc, Tok(p + 1)))
    ELSE [attributes |-> acc, pos |-> p]

\* Option<ast::Path>: an identifier and any `::` segments after it.
RECURSIVE path_rest(_, _)
path_rest(p, acc) ==
    IF Nth(p, 0) = "::"
    THEN IF Nth(p, 1) \in Idents
         THEN path_rest(p + 2, acc \o <<Tok(p + 1), Tok(p + 2)>>)
         ELSE ErrAt("TokenMismatch", p + 1)
    ELSE [ok |-> TRUE, some |-> TRUE, path |-> acc, pos |-> p]

parse_path(p) ==
    IF Nth(p, 0) \in Idents
    THEN path_rest(p + 1, <<Tok(p + 1)>>)
    ELSE [ok |-> TRUE, some |-> FALSE, pos |-> p]

\* Path::try_as_ident: the identifier a one-segment path is, <<>> otherwise.
try_as_ident(path) == IF Len(path) = 1 THEN <<path[1]>> ELSE <<>>

\* Option<(ast::Label, T![:])>
parse_opt_label(p) ==
    IF Nth(p, 0) = "'l"
    THEN IF Nth(p, 1) = ":"
         THEN [ok |-> TRUE, label |-> <<Tok(p + 1), Tok(p + 2)>>, pos |-> p + 2]
         ELSE ErrAt("TokenMismatch", p + 1)
    ELSE [ok |-> TRUE, label |-> <<>>, pos |-> p]

Lit_peek_in_expr(p) == Nth(p, 0) \in LitKinds

LitOf(kind) ==
    CASE kind = "1" -> "Number"
      [] kind = "str" -> "Str"
      [] kind = "true" -> "Bool"

ExprLit_parse_with_meta(p, as) ==
    Ok([tag |-> "ExprLit", attributes |-> as,
        lit |-> [lit |-> LitOf(Nth(p, 0)), tokens |-> <<Tok(p + 1)>>]], p + 1)

\* LitObject::parse_with_ident: the braces of an object keyed by `ident`.
LitObject_parse_with_ident(p, ident) ==
    IF Nth(p, 0) # "{" THEN ErrAt("TokenMismatch", p)
    ELSE IF Nth(p, 1) # "}" THEN ErrAt("TokenMismatch", p + 1)
    ELSE [ok |-> TRUE, pos |-> p + 2,
          lit |-> [lit |-> "Object", ident |-> ident,
                   tokens |-> ident \o <<Tok(p + 1), Tok(p + 2)>>]]

\* MacroCall::parse_with_meta_path: `!` and the delimited token stream.
MacroCall_parse_with_meta_path(p, as, path) ==
    IF Nth(p, 0) # "!" THEN ErrAt("TokenMismatch", p)
    ELSE IF Nth(p, 1) # "(" THEN ErrAt("TokenMismatch", p + 1)
    ELSE IF Nth(p, 2) # ")" THEN ErrAt("TokenMismatch", p + 2)
    ELSE Ok([tag |-> "MacroCall", attributes |-> as, path |-> path,
             rest |-> <<Tok(p + 1), Tok(p + 2), Tok(p + 3)>>], p + 3)

\* Expr::peek
peek(p) ==
    LET k == Nth(p, 0)
    IN  CASE k = "async" -> TRUE
          [] k = "select" -> TRUE
          [] k = "'l" -> Nth(p, 1) = ":"
          [] k = "#[attr]" -> TRUE
          [] k = "-" -> TRUE
          [] k = "!" -> TRUE
          [] k = "&" -> TRUE
          [] k = "*" -> TRUE
          [] k = "while" -> TRUE
          [] k = "loop" -> TRUE
          [] k = "for" -> TRUE
          [] k = "let" -> TRUE
          [] k = "if" -> TRUE
          [] k = "break" -> TRUE
          [] k = "return" -> TRUE
          [] k = "true" -> TRUE
          [] k \in Idents -> TRUE
          [] k = "(" -> TRUE
          [] k = "[" -> TRUE
          [] k = "{" -> TRUE
          [] k = "1" -> TRUE
          [] k = "str" -> TRUE
          [] OTHER -> FALSE

(***************************************************************************)
(* The parser.  Every operator takes the cursor and returns either         *)
(* [ok |-> TRUE, expr, pos] or [ok |-> FALSE, kind, span, pos].            *)
(***************************************************************************)
\* The `?` of Rust: an error is returned at once, a result is handed on.
Then(r, K(_)) == IF r.ok THEN K(r) ELSE r

Let(v, K(_)) == K(v)

RECURSIVE parse_with(_, _, _), parse_base(_, _, _), parse_chain(_, _),
          parse_binary(_, _, _, _), binary_rhs(_, _, _, _, _), parse_items(_, _, _)

\* Expr::parse
parse(p) == parse_with(p, TRUE, TRUE)

\* parse_without_eager_brace that leaves the binary tail to its caller.
parse_without_eager_brace_no_binary(p) == parse_with(p, FALSE, FALSE)

parse_without_eager_brace(p) == parse_with(p, FALSE, TRUE)

\* The items of a delimited list up to `close`: an expression and its
\* separator each, ending at the first item with no separator.
parse_items(p, close, acc) ==
    IF Nth(p, 0) = close THEN [ok |-> TRUE, items |-> acc, pos |-> p]
    ELSE Then(parse(p), LAMBDA e :
         Let(parse_opt(e.pos, ","), LAMBDA sep :
         IF sep.tok = <<>>
         THEN [ok |-> TRUE, pos |-> sep.pos,
               items |-> Append(acc, [expr |-> e.expr, sep |-> <<>>])]
         ELSE parse_items(sep.pos, close,
                          Append(acc, [expr |-> e.expr, sep |-> sep.tok]))))

\* ast::Parenthesized<ast::Expr, T![,]>
parse_parenthesized(p) ==
    Then(Expect(p, "("), LAMBDA o :
    Then(parse_items(o.pos, ")", <<>>), LAMBDA l :
    Then(Expect(l.pos, ")"), LAMBDA c :
    [ok |-> TRUE, pos |-> c.pos,
     list |-> [open |-> o.tok, items |-> l.items, close |-> c.tok]])))

\* ast::LitTuple::parse_from_first_expr
LitTuple_parse_from_first_expr(p, open, first) ==
    Then(Expect(p, ","), LAMBDA comma :
    Then(parse_items(comma.pos, ")", <<[expr |-> first, sep |-> <<comma.tok>>]>>),
         LAMBDA l :
    Then(Expect(l.pos, ")"), LAMBDA c :
    [ok |-> TRUE, pos |-> c.pos,
     lit |-> [lit |-> "Tuple", open |-> open, items |-> l.items,
              close |-> c.tok]])))

\* The statements of a block: at most one expression.
parse_statements(p) ==
    IF Nth(p, 0) = "}" THEN [ok |-> TRUE, items |-> <<>>, pos |-> p]
    ELSE Then(parse(p), LAMBDA r :
         [ok |-> TRUE, pos |-> r.pos,
          items |-> <<[expr |-> r.expr, sep |-> <<>>]>>])

\* ast::Block
parse_block(p) ==
    Then(Expect(p, "{"), LAMBDA o :
    Then(parse_statements(o.pos), LAMBDA e :
    Then(Expect(e.pos, "}"), LAMBDA c :
    [ok |-> TRUE, pos |-> c.pos,
     block |-> [open |-> o.tok, items |-> e.items, close |-> c.tok]])))

\* The arguments of a closure: `||` or `|a|`.
parse_closure_args(p) ==
    IF Nth(p, 0) = "||"
    THEN [ok |-> TRUE, args |-> <<Tok(p + 1)>>, pos |-> p + 1]
    ELSE IF Nth(p, 1) \in Idents /\ Nth(p, 2) = "|"
    THEN [ok |-> TRUE, pos |-> p + 3,
          args |-> <<Tok(p + 1), Tok(p + 2), Tok(p + 3)>>]
    ELSE ErrAt("TokenMismatch", p + 1)

\* ExprClosure::parse_with_attributes_and_async
ExprClosure_parse(p, as, async_token) ==
    Then(parse_closure_args(p), LAMBDA args :
    Then(parse(args.pos), LAMBDA body :
    Ok([tag |-> "ExprClosure", attributes |-> as, async_token |-> async_token,
        args |-> args.args, body |-> body.expr], body.pos)))

\* ExprSelect::parse_with_attributes: `select` and its braces.
ExprSelect_parse(p, as) ==
    Then(Expect(p + 1, "{"), LAMBDA o :
    Then(Expect(o.pos, "}"), LAMBDA c :
    Ok([tag |-> "ExprSelect", attributes |-> as,
        rest |-> <<Tok(p + 1), o.tok, c.tok>>], c.pos)))

\* ExprUnary::parse_with_meta: the operator, then an operand with no binary tail.
ExprUnary_parse(p, as, eb) ==
    Then(parse_with(p + 1, eb, FALSE), LAMBDA e :
    Ok([tag |-> "ExprUnary", attributes |-> as, op |-> Tok(p + 1),
        expr |-> e.expr], e.pos))

ExprWhile_parse(p, as, label) ==
    Then(parse_without_eager_brace(p + 1), LAMBDA c :
    Then(parse_block(c.pos), LAMBDA b :
    Ok([tag |-> "ExprWhile", attributes |-> as, label |-> label,
        while_token |-> Tok(p + 1), condition |-> c.expr, body |-> b.block],
       b.pos)))

ExprLoop_parse(p, as, label) ==
    Then(parse_block(p + 1), LAMBDA b :
    Ok([tag |-> "ExprLoop", attributes |-> as, label |-> label,
        loop_token |-> Tok(p + 1), body |-> b.block], b.pos))

\* An identifier pattern.
parse_pat(p) ==
    IF Nth(p, 0) \in Idents THEN [ok |-> TRUE, tok |-> Tok(p + 1), pos |-> p + 1]
    ELSE ErrAt("TokenMismatch", p)

ExprFor_parse(p, as, label) ==
    Then(parse_pat(p + 1), LAMBDA v :
    Then(Expect(v.pos, "in"), LAMBDA in :
    Then(parse_without_eager_brace(in.pos), LAMBDA it :
    Then(parse_block(it.pos), LAMBDA b :
    Ok([tag |-> "ExprFor", attributes |-> as, label |-> label,
        for_token |-> Tok(p + 1), var |-> v.tok, in_token |-> in.tok,
        iter |-> it.expr, body |-> b.block], b.pos)))))

ExprLet_parse(p, as) ==
    Then(parse_pat(p + 1), LAMBDA v :
    Then(Expect(v.pos, "="), LAMBDA eq :
    Then(parse(eq.pos), LAMBDA e :
    Ok([tag |-> "ExprLet", attributes |-> as, let_token |-> Tok(p + 1),
        pat |-> v.tok, eq |-> eq.tok, expr |-> e.expr], e.pos))))

\* Option<ExprElse>
parse_else(p) ==
    IF Nth(p, 0) = "else"
    THEN Then(parse_block(p + 1), LAMBDA b :
         [ok |-> TRUE, pos |-> b.pos,
          expr_else |-> <<[else_token |-> Tok(p + 1), block |-> b.block]>>])
    ELSE [ok |-> TRUE, pos |-> p, expr_else |-> <<>>]

ExprIf_parse(p, as) ==
    Then(parse_without_eager_brace(p + 1), LAMBDA c :
    Then(parse_block(c.pos), LAMBDA b :
    Then(parse_else(b.pos), LAMBDA else :
    Ok([tag |-> "ExprIf", attributes |-> as, if_token |-> Tok(p + 1),
        condition |-> c.expr, block |-> b.block,
        expr_else |-> else.expr_else], else.pos))))

ExprMatch_parse(p, as) ==
    Then(parse_without_eager_brace(p + 1), LAMBDA e :
    Then(Expect(e.pos, "{"), LAMBDA o :
    Then(Expect(o.pos, "}"), LAMBDA c :
    Ok([tag |-> "ExprMatch", attributes |-> as, match_token |-> Tok(p + 1),
        expr |-> e.expr, rest |-> <<o.tok, c.tok>>], c.pos))))

\* Option<Expr>
parse_opt_expr(p) ==
    IF peek(p)
    THEN Then(parse(p), LAMBDA e :
         [ok |-> TRUE, pos |-> e.pos, expr |-> [some |-> TRUE, value |-> e.expr]])
    ELSE [ok |-> TRUE, pos |-> p, expr |-> [some |-> FALSE]]

\* ExprBreak, ExprYield, ExprReturn: the keyword and an Option<Expr>.
KeywordExpr_parse(p, as, tag) ==
    Then(parse_opt_expr(p + 1), LAMBDA e :
    Ok([tag |-> tag, attributes |-> as, keyword |-> Tok(p + 1),
        expr |-> e.expr], e.pos))

\* A result of parse_base: the node, the cursor, and what is left of `attributes`.
Left(r, as) == OkA(r.expr, r.pos, as)

\* parse_with_meta_path that takes a `{` for an object whatever eager_brace says.
parse_with_meta_path_always_eager(p, as, path, eb) ==
    IF Nth(p, 0) = "{"
    THEN Then(LitObject_parse_with_ident(p, path), LAMBDA o :
         OkA([tag |-> "ExprLit", attributes |-> as, lit |-> o.lit], o.pos, <<>>))
    ELSE IF Nth(p, 0) = "!"
    THEN Then(MacroCall_parse_with_meta_path(p, as, path), LAMBDA m :
         Left(m, <<>>))
    ELSE OkA([tag |-> "Path", path |-> path], p, as)

\* Expr::parse_with_meta_path: what follows a path decides the form.
parse_with_meta_path(p, as, path, eb) ==
    IF eb /\ Nth(p, 0) = "{"
    THEN Then(LitObject_parse_with_ident(p, path), LAMBDA o :
         OkA([tag |-> "ExprLit", attributes |-> as, lit |-> o.lit], o.pos, <<>>))
    ELSE IF Nth(p, 0) = "!"
    THEN Then(MacroCall_parse_with_meta_path(p, as, path), LAMBDA m :
         Left(m, <<>>))
    ELSE OkA([tag |-> "Path", path |-> path], p, as)

\* Expr::parse_open_paren: the unit literal, a group or a tuple.
parse_open_paren(p, as) ==
    IF Nth(p, 0) = "(" /\ Nth(p, 1) = ")"
    THEN OkA([tag |-> "ExprLit", attributes |-> as,
              lit |-> [lit |-> "Unit", tokens |-> <<Tok(p + 1), Tok(p + 2)>>]],
             p + 2, <<>>)
    ELSE Then(Expect(p, "("), LAMBDA open :
         Then(parse_with(open.pos, TRUE, TRUE), LAMBDA e :
         IF Nth(e.pos, 0) = ")"
         THEN OkA([tag |-> "ExprGroup", attributes |-> as, open |-> open.tok,
                   expr |-> e.expr, close |-> Tok(e.pos + 1)], e.pos + 1, <<>>)
         ELSE Then(LitTuple_parse_from_first_expr(e.pos, open.tok, e.expr),
                   LAMBDA tuple :
              OkA([tag |-> "ExprLit", attributes |-> as, lit |-> tuple.lit],
                  tuple.pos, <<>>))))

\* ExprBlock as parse_base builds it.
ExprBlock_parse(p, as, async_token) ==
    Then(parse_block(p), LAMBDA b :
    Ok([tag |-> "ExprBlock", attributes |-> as, async_token |-> async_token,
        block |-> b.block], b.pos))

\* The match of parse_base on the token after the label and `async`: the
\* form's result and what it left of the label, the async token and the
\* attributes.  matched is FALSE in the `_` arm.
Form(r, label, async_token, as) ==
    [matched |-> TRUE, r |-> r, label |-> label, async_token |-> async_token,
     attributes |-> as]

\* parse_open_paren takes the attributes when it returns a node.
OpenParenForm(r, label, async_token, as) ==
    Form(r, label, async_token, IF r.ok THEN r.attributes ELSE as)

dispatch(p, as, label, async_token, eb) ==
    LET k == Nth(p, 0)
    IN  CASE k \in {"||", "|"} ->
                Form(ExprClosure_parse(p, as, async_token), label, <<>>, <<>>)
          [] k = "select" ->
                Form(ExprSelect_parse(p, as), label, async_token, <<>>)
          [] k \in UnaryKinds ->
                Form(ExprUnary_parse(p, as, eb), label, async_token, <<>>)
          [] k = "while" ->
                Form(ExprWhile_parse(p, as, label), <<>>, async_token, <<>>)
          [] k = "loop" ->
                Form(ExprLoop_parse(p, as, label), <<>>, async_token, <<>>)
          [] k = "for" ->
                Form(ExprFor_parse(p, as, label), <<>>, async_token, <<>>)
          [] k = "let" ->
                Form(ExprLet_parse(p, as), label, async_token, <<>>)
          [] k = "if" ->
                Form(ExprIf_parse(p, as), label, async_token, <<>>)
          [] k = "match" ->
                Form(ExprMatch_parse(p, as), label, async_token, <<>>)
          [] k = "(" ->
                OpenParenForm(parse_open_paren(p, as), label, async_token, as)
          [] k = "{" ->
                Form(ExprBlock_parse(p, as, async_token), label, <<>>, <<>>)
          [] k = "break" ->
                Form(KeywordExpr_parse(p, as, "ExprBreak"), label, async_token, <<>>)
          [] k = "yield" ->
                Form(KeywordExpr_parse(p, as, "ExprYield"), label, async_token, <<>>)
          [] k = "return" ->
                Form(KeywordExpr_parse(p, as, "ExprReturn"), label, async_token, <<>>)
          [] OTHER -> [matched |-> FALSE]

\* The end of parse_base with the two checks in the other order.
check_modifiers_async_first(form, p) ==
    IF ~form.matched THEN ErrAt("Expected", p)
    ELSE IF ~form.r.ok THEN form.r
    ELSE IF form.async_token # <<>>
    THEN Err("UnsupportedAsync", TokensSpan(form.async_token), form.r.pos)
    ELSE IF form.label # <<>>
    THEN Err("UnsupportedLabel", TokensSpan(form.label), form.r.pos)
    ELSE OkA(form.r.expr, form.r.pos, form.attributes)

\* The end of parse_base: a label or an `async` the form left is an error.
check_modifiers(form, p) ==
    IF ~form.matched THEN ErrAt("Expected", p)
    ELSE IF ~form.r.ok THEN form.r
    ELSE IF form.label # <<>>
    THEN Err("UnsupportedLabel", TokensSpan(form.label), form.r.pos)
    ELSE IF form.async_token # <<>>
    THEN Err("UnsupportedAsync", TokensSpan(form.async_token), form.r.pos)
    ELSE OkA(form.r.expr, form.r.pos, form.attributes)

\* Expr::parse_base.  The result carries what is left of `attributes`.
parse_base(p, as, eb) ==
    Then(parse_path(p), LAMBDA path :
    IF path.some THEN parse_with_meta_path(path.pos, as, path.path, eb)
    ELSE IF Lit_peek_in_expr(p) THEN Left(ExprLit_parse_with_meta(p, as), <<>>)
    ELSE Then(parse_opt_label(p), LAMBDA label :
         Let(parse_opt(label.pos, "async"), LAMBDA async :
         check_modifiers(dispatch(async.pos, as, label.label, async.tok, eb),
                         async.pos))))

\* The `[` arm with no guard.
index_arm_unguarded(k, e) == k = "["

\* The guards of parse_chain's `[` and `(` arms.
index_arm(k, e) == k = "[" /\ is_chainable(e)

call_arm(k, e) == k = "(" /\ is_chainable(e)

\* field_of that takes the first segment of any path for the field.
field_of_any_path(next) ==
    CASE next.tag = "Path" ->
            [some |-> TRUE, expr_field |-> [field |-> "Ident", token |-> next.path[1]]]
      [] next.tag = "ExprLit" /\ next.lit.lit = "Number" /\ next.attributes = <<>> ->
            [some |-> TRUE,
             expr_field |-> [field |-> "LitNumber", token |-> next.lit.tokens[1]]]
      [] OTHER -> [some |-> FALSE, span |-> span(next)]

\* What parse_chain makes of the primary expression after a `.`: a field, or
\* the span of the form that is none.
field_of(next) ==
    CASE next.tag = "Path" ->
            IF try_as_ident(next.path) # <<>>
            THEN [some |-> TRUE,
                  expr_field |-> [field |-> "Ident", token |-> try_as_ident(next.path)[1]]]
            ELSE [some |-> FALSE, span |-> TokensSpan(next.path)]
      [] next.tag = "ExprLit" /\ next.lit.lit = "Number" /\ next.attributes = <<>> ->
            [some |-> TRUE,
             expr_field |-> [field |-> "LitNumber", token |-> next.lit.tokens[1]]]
      [] OTHER -> [some |-> FALSE, span |-> span(next)]

\* Expr::parse_chain: one turn of the loop, then the rest of it.  t is the
\* outcome of expr.take_attributes().
parse_chain(p, e) ==
    IF is_eof(p) THEN Ok(e, p)
    ELSE
    Let(Nth(p, 0), LAMBDA k :
    Let(take_attributes(e), LAMBDA t :
        CASE index_arm(k, e) ->
                Then(parse(p + 1), LAMBDA index :
                Then(Expect(index.pos, "]"), LAMBDA close :
                parse_chain(close.pos,
                    [tag |-> "ExprIndex", attributes |-> t.taken,
                     target |-> t.node, open |-> Tok(p + 1),
                     index |-> index.expr, close |-> close.tok])))
          [] call_arm(k, e) ->
                Then(parse_parenthesized(p), LAMBDA args :
                parse_chain(args.pos,
                    [tag |-> "ExprCall", attributes |-> t.taken,
                     expr |-> t.node, args |-> args.list]))
          [] k = "?" ->
                parse_chain(p + 1,
                    [tag |-> "ExprTry", attributes |-> t.taken,
                     expr |-> t.node, try_token |-> Tok(p + 1)])
          [] k = "=" ->
                Then(parse_with(p + 1, TRUE, TRUE), LAMBDA rhs :
                parse_chain(rhs.pos,
                    [tag |-> "ExprAssign", attributes |-> t.taken,
                     lhs |-> t.node, eq |-> Tok(p + 1), rhs |-> rhs.expr]))
          [] k = "." ->
                IF Nth(p + 1, 0) = "await"
                THEN parse_chain(p + 2,
                        [tag |-> "ExprAwait", attributes |-> t.taken,
                         expr |-> t.node, dot |-> Tok(p + 1),
                         await_token |-> Tok(p + 2)])
                ELSE Then(parse_base(p + 1, <<>>, FALSE), LAMBDA next :
                     Let(field_of(next.expr), LAMBDA f :
                     IF f.some
                     THEN parse_chain(next.pos,
                            [tag |-> "ExprFieldAccess", attributes |-> t.taken,
                             expr |-> t.node, dot |-> Tok(p + 1),
                             expr_field |-> f.expr_field])
                     ELSE Err("UnsupportedFieldAccess", f.span, next.pos)))
          [] OTHER -> Ok(e, p)))

\* The tests of parse_binary on the operator ahead.
accepts(op, min_precedence) == precedence(op) >= min_precedence

climbs_or_ties(lh, op) == precedence(lh) >= precedence(op)

climbs(lh, op) == precedence(lh) > precedence(op)

group_required_same_op(lh, op) == lh = op /\ ~is_assoc(op)

group_required(lh, op) == precedence(lh) = precedence(op) /\ ~is_assoc(op)

\* The inner loop of parse_binary: the right-hand side takes in every
\* operator ahead that binds tighter than op.
binary_rhs(p, lhs, rhs, op, eb) ==
    Let(BinOp_from_peeker(p), LAMBDA lookahead_tok :
    IF lookahead_tok # <<>> /\ climbs(lookahead_tok[1], op)
    THEN Then(parse_binary(p, rhs, precedence(lookahead_tok[1]), eb), LAMBDA r :
         binary_rhs(r.pos, lhs, r.expr, op, eb))
    ELSE IF lookahead_tok # <<>> /\ group_required(lookahead_tok[1], op)
    THEN Err("PrecedenceGroupRequired", Join(span(lhs), span(rhs)), p)
    ELSE Ok(rhs, p))

\* Expr::parse_binary: one turn of the outer loop, then the rest of it.  The
\* operator ahead is always the one at the cursor, so it is peeked afresh.
parse_binary(p, lhs, min_precedence, eb) ==
    Let(BinOp_from_peeker(p), LAMBDA lookahead_tok :
    IF lookahead_tok = <<>> \/ ~accepts(lookahead_tok[1], min_precedence)
    THEN Ok(lhs, p)
    ELSE
    Let(lookahead_tok[1], LAMBDA op :
    Let(advance(p, op), LAMBDA adv :
    Then(parse_base(adv.pos, <<>>, eb), LAMBDA b :
    Then(parse_chain(b.pos, b.expr), LAMBDA c :
    Then(binary_rhs(c.pos, lhs, c.expr, op, eb), LAMBDA r :
    parse_binary(r.pos,
        [tag |-> "ExprBinary", attributes |-> <<>>, lhs |-> lhs,
         t1 |-> adv.t1, t2 |-> adv.t2, rhs |-> r.expr, op |-> op],
        min_precedence, eb)))))))

\* The binary tail of parse_with.
parse_tail(p, e, eb, ebin) == IF ebin THEN parse_binary(p, e, 0, eb) ELSE Ok(e, p)

\* The last step of parse_with with the check left out.
check_attributes_unchecked(as, e, p) == Ok(e, p)

\* The last step of parse_with: attributes no form took are an error.
check_attributes(as, e, p) ==
    IF as # <<>> THEN Err("AttributesNotSupported", TokensSpan(as), p)
    ELSE Ok(e, p)

\* Expr::parse_with
parse_with(p, eb, ebin) ==
    Let(parse_attributes(p, <<>>), LAMBDA a :
    Then(parse_base(a.pos, a.attributes, eb), LAMBDA b :
    Then(parse_chain(b.pos, b.expr), LAMBDA c :
    Then(parse_tail(c.pos, c.expr, eb, ebin), LAMBDA d :
    check_attributes(b.attributes, d.expr, d.pos)))))

(***************************************************************************)
(* The token streams the parser is run on: a head form with up to n tails  *)
(* after it.                                                               *)
(***************************************************************************)
RECURSIVE Tails(_, _)
Tails(S, n) ==
    IF n = 0 THEN {<<>>}
    ELSE Tails(S, n - 1) \cup {s \o t : s \in S, t \in Tails(S, n - 1)}

Inputs(H, S, n) == {h \o t : h \in H, t \in Tails(S, n)}

MaxTails == 2

MaxOps == 3

Heads ==
    { <<"a">>, <<"1">>, <<"#[attr]", "1">>, <<"#[attr]", "a">>,
      <<"a", "::", "b">>, <<"-", "a">>, <<"(", "1", ")">>,
      <<"loop", "{", "}">>, <<"for", "a", "in", "b", "{", "}">>,
      <<"#[attr]", "while", "a", "{", "}">>, <<"if", "a", "{", "}">>,
      <<"#[attr]", "#[attr]", "{", "1", "}">>, <<"return", "1">> }

ChainTails ==
    { <<"[", "1", "]">>, <<"(", ")">>, <<"(", "a", ",", "1", ")">>, <<"?">>,
      <<"=", "1">>, <<".", "a">>, <<".", "1">>, <<".", "await">>,
      <<".", "a", "::", "b">>, <<".", "str">>, <<".", "a", "!", "(", ")">>,
      <<".", "(", "1", ")">>,
      <<"+", "1">>, <<"==", "a">>, <<"is", "not", "a">>, <<"{", "}">> }

\* The forms parse_base tells apart, each behind an optional attribute,
\* label and `async`.
Forms ==
    { <<"a">>, <<"a", "{", "}">>, <<"a", "!", "(", ")">>, <<"1">>,
      <<"||", "1">>, <<"|", "a", "|", "a">>, <<"select", "{", "}">>,
      <<"-", "a">>, <<"while", "a", "{", "}">>, <<"loop", "{", "}">>,
      <<"for", "a", "in", "b", "{", "}">>, <<"let", "a", "=", "1">>,
      <<"if", "a", "{", "}", "else", "{", "}">>, <<"match", "a", "{", "}">>,
      <<"(", ")">>, <<"(", "1", ")">>, <<"(", "1", ",", "a", ")">>,
      <<"{", "1", "}">>, <<"break">>, <<"yield", "1">>, <<"return">>,
      <<"if", "}">>, <<"loop", "1">>, <<"]">> }

BaseInputs ==
    { at \o l \o as \o f \o t :
        at \in {<<>>, <<"#[attr]">>}, l \in {<<>>, <<"'l", ":">>, <<"'l">>},
        as \in {<<>>, <<"async">>}, f \in Forms,
        t \in {<<>>, <<"?">>, <<"+", "1">>} }

Operands == {"a", "1"}

Operators == {"+", "-", "*", "==", "<", "&&"}

BinaryTails == {<<o, x>> : o \in Operators, x \in Operands}

(***************************************************************************)
(* Expr::parse_with, step by step.                                         *)
(***************************************************************************)
InitWith(inputs, flags) ==
    /\ tokens \in inputs
    /\ \E f \in flags : eager_brace = f[1] /\ eager_binary = f[2]
    /\ pc = "start"
    /\ pos = 0
    /\ pending_attributes = <<>>
    /\ expr = NoExpr
    /\ base = NoExpr
    /\ chained = NoExpr
    /\ error = NoError
    /\ taken = <<>>

\* Expr::parse, Expr::parse_without_eager_brace, and parse_with as
\* ExprUnary calls it.
EntryFlags == {<<TRUE, TRUE>>, <<FALSE, TRUE>>, <<TRUE, FALSE>>, <<FALSE, FALSE>>}

Init == InitWith(Inputs(Heads, ChainTails, MaxTails), EntryFlags)

InitBinary ==
    InitWith(Inputs({<<x>> : x \in Operands}, BinaryTails, MaxOps),
             {<<TRUE, TRUE>>, <<FALSE, TRUE>>})

Fail(r) ==
    /\ pc' = "failed"
    /\ error' = [kind |-> r.kind, span |-> r.span]
    /\ pos' = r.pos

\* let mut attributes = p.parse()?;
ParseAttributes ==
    /\ pc = "start"
    /\ pending_attributes' = parse_attributes(pos, <<>>).attributes
    /\ pos' = parse_attributes(pos, <<>>).pos
    /\ pc' = "base"
    /\ UNCHANGED <<tokens, eager_brace, eager_binary, expr, base, chained, error, taken>>

BaseReturns(r) ==
    IF r.ok
    THEN /\ expr' = r.expr
         /\ base' = r.expr
         /\ pending_attributes' = r.attributes
         /\ pos' = r.pos
         /\ pc' = "chain"
         /\ UNCHANGED error
    ELSE /\ Fail(r)
         /\ UNCHANGED <<expr, base, pending_attributes>>

\* let expr = Self::parse_base(p, &mut attributes, eager_brace)?;
ParseBase ==
    /\ pc = "base"
    /\ BaseReturns(parse_base(pos, pending_attributes, eager_brace))
    /\ UNCHANGED <<tokens, eager_brace, eager_binary, chained, taken>>

ChainReturns(r) ==
    IF r.ok
    THEN /\ expr' = r.expr
         /\ chained' = r.expr
         /\ pos' = r.pos
         /\ pc' = "binary"
         /\ UNCHANGED error
    ELSE /\ Fail(r)
         /\ UNCHANGED <<expr, chained>>

\* let expr = Self::parse_chain(p, expr)?;
ParseChain ==
    /\ pc = "chain"
    /\ ChainReturns(parse_chain(pos, expr))
    /\ UNCHANGED <<tokens, eager_brace, eager_binary, pending_attributes, base, taken>>

BinaryReturns(r) ==
    IF r.ok
    THEN /\ expr' = r.expr
         /\ pos' = r.pos
         /\ pc' = "check"
         /\ UNCHANGED error
    ELSE /\ Fail(r)
         /\ UNCHANGED expr

\* let expr = if *eager_binary { Self::parse_binary(p, expr, 0, eager_brace)? } else { expr };
ParseBinary ==
    /\ pc = "binary"
    /\ BinaryReturns(parse_tail(pos, expr, eager_brace, eager_binary))
    /\ UNCHANGED <<tokens, eager_brace, eager_binary, pending_attributes, base,
                   chained, taken>>

CheckReturns(r) ==
    IF r.ok
    THEN /\ pc' = "done"
         /\ UNCHANGED <<error, pos>>
    ELSE Fail(r)

\* if let Some(span) = attributes.option_span() { return Err(..) }  Ok(expr)
CheckAttributes ==
    /\ pc = "check"
    /\ CheckReturns(check_attributes(pending_attributes, expr, pos))
    /\ UNCHANGED <<tokens, eager_brace, eager_binary, pending_attributes, expr,
                   base, chained, taken>>

Next ==
    \/ ParseAttributes
    \/ ParseBase
    \/ ParseChain
    \/ ParseBinary
    \/ CheckAttributes

Spec == Init /\ [][Next]_vars

SpecBinary == InitBinary /\ [][Next]_vars

\* Every form behind up to two attributes, with postfix and binary tails,
\* well-formed and not, after it.
AttrHeads ==
    { at \o f : at \in {<<>>, <<"#[attr]">>, <<"#[attr]", "#[attr]">>}, f \in Forms }

AttrTails ==
    { <<"?">>, <<".", "a">>, <<".", "str">>, <<"[", "1", "]">>, <<"(", ")">>,
      <<"=", "1">>, <<".", "await">>, <<"+", "1">>, <<"==", "a">> }

InitAttributes == InitWith(Inputs(AttrHeads, AttrTails, MaxTails), EntryFlags)

SpecAttributes == InitAttributes /\ [][Next]_vars

InitBase == InitWith(BaseInputs, EntryFlags)

SpecBase == InitBase /\ [][Next]_vars

\* The stepwise parse and parse_with agree.
StepsAgree ==
    LET r == parse_with(0, eager_brace, eager_binary)
    IN  /\ pc = "done" => r.ok /\ r.expr = expr /\ r.pos = pos
        /\ pc = "failed" => ~r.ok /\ r.kind = error.kind /\ r.span = error.span

(***************************************************************************)
(* The capability queries on a node of any variant.                        *)
(***************************************************************************)
MaxAttrs == 2

AttrSeq(n) == [i \in 1..n |-> [kind |-> "#[attr]", at |-> i]]

\* A node of the variant `tag` with n attributes and a payload token.
NodeOf(tag, n, kind) ==
    CASE tag = "Path" -> [tag |-> tag, path |-> <<[kind |-> kind, at |-> 1]>>]
      [] tag = "Item" ->
            [tag |-> tag,
             item |-> [attributes |-> AttrSeq(n),
                       tokens |-> <<[kind |-> kind, at |-> n + 1]>>]]
      [] OTHER ->
            [tag |-> tag, attributes |-> AttrSeq(n),
             payload |-> <<[kind |-> kind, at |-> n + 1]>>]

Nodes == {NodeOf(tag, n, kind) : tag \in ExprTags, n \in 0..MaxAttrs, kind \in Idents}

InitNode ==
    /\ expr \in Nodes
    /\ base = expr
    /\ pc = "node"
    /\ tokens = <<>>
    /\ eager_brace = TRUE
    /\ eager_binary = TRUE
    /\ pos = 0
    /\ pending_attributes = <<>>
    /\ chained = NoExpr
    /\ error = NoError
    /\ taken = <<>>

\* A call of Expr::take_attributes on the node; base keeps the node as it was.
TakeAttributes ==
    /\ pc \in {"node", "taken"}
    /\ taken' = take_attributes(expr).taken
    /\ expr' = take_attributes(expr).node
    /\ pc' = IF pc = "node" THEN "taken" ELSE "retaken"
    /\ UNCHANGED <<tokens, eager_brace, eager_binary, pos, pending_attributes,
                   base, chained, error>>

NextNode == TakeAttributes

SpecNode == InitNode /\ [][NextNode]_vars

\* Two nodes differ at most in the attribute list.
SameButAttributes(e, b) ==
    /\ DOMAIN e = DOMAIN b
    /\ \A f \in DOMAIN e \ {"attributes", "item"} : e[f] = b[f]
    /\ e.tag = "Item" =>
          /\ DOMAIN e.item = DOMAIN b.item
          /\ e.item.tokens = b.item.tokens

\* C6: take_attributes returns the list attributes() showed before the call
\* and leaves a node whose attributes() is empty, so that a second call returns
\* an empty list; nothing else of the node changes; a Path reports an empty
\* list both ways.
TakeAttributesMoves ==
    /\ pc = "taken" => taken = attributes(base)
    /\ pc = "retaken" => taken = <<>>
    /\ pc \in {"taken", "retaken"} =>
          /\ attributes(expr) = <<>>
          /\ SameButAttributes(expr, base)
    /\ expr.tag = "Path" => attributes(expr) = <<>> /\ taken = <<>>

\* Two attributes have been taken from a block node.
TakeAttributesMovesWitness ==
    /\ pc = "taken"
    /\ expr.tag = "ExprBlock"
    /\ Len(taken) = 2
    /\ Len(attributes(base)) = 2
    /\ attributes(expr) = <<>>

NoSemiTags ==
    {"ExprWhile", "ExprLoop", "ExprFor", "ExprIf", "ExprMatch", "ExprBlock",
     "ExprSelect"}

\* C8: needs_semi is decided by the variant alone: false for while, loop, for,
\* if, match, block and select, true for the 18 other variants.
NeedsSemiByTag ==
    /\ needs_semi(expr) = (expr.tag \notin NoSemiTags)
    /\ Cardinality(ExprTags \ NoSemiTags) = 18
    /\ \A n \in Nodes : n.tag = expr.tag => needs_semi(n) = needs_semi(expr)

\* A select node with attributes needs no semicolon; that of a call does.
NeedsSemiByTagWitness ==
    /\ expr.tag = "ExprSelect"
    /\ attributes(expr) # <<>>
    /\ ~needs_semi(expr)
    /\ needs_semi(NodeOf("ExprCall", 1, "a"))

(***************************************************************************)
(* Properties of the binary climber, over flat chains                      *)
(*     operand (operator operand)*                                         *)
(* of one-token operands and one-token operators.                          *)
(***************************************************************************)
\* The node of the one-token operand at place i.
Leaf(i) ==
    IF tokens[i] \in Idents
    THEN [tag |-> "Path", path |-> <<Tok(i)>>]
    ELSE [tag |-> "ExprLit", attributes |-> <<>>,
          lit |-> [lit |-> LitOf(tokens[i]), tokens |-> <<Tok(i)>>]]

\* The operator of the one-token operator at place i.
OpAt(i) == BinOp_from_peeker(i - 1)[1]

Binary(l, i, r) ==
    [tag |-> "ExprBinary", attributes |-> <<>>, lhs |-> l, t1 |-> Tok(i),
     t2 |-> <<>>, rhs |-> r, op |-> OpAt(i)]

IsFlatChain ==
    /\ Len(tokens) % 2 = 1
    /\ \A i \in 1..Len(tokens) :
          IF i % 2 = 1 THEN tokens[i] \in Operands ELSE tokens[i] \in Operators

\* The number of operators of a flat chain; the j-th stands at place 2j.
NumOps == Len(tokens) \div 2

Prec(j) == precedence(OpAt(2 * j))

BinaryRan == pc \in {"check", "done"} \/ (pc = "failed" /\ chained # NoExpr)

\* C1: a OP1 b OP2 c groups by precedence: Binary(a, OP1, Binary(b, OP2, c))
\* when OP2 binds strictly tighter than OP1, and Binary(Binary(a, OP1, b), OP2, c)
\* when OP2 binds looser, or as tight with OP1 associative.  These parses succeed.
PrecedenceGrouping ==
    (IsFlatChain /\ NumOps = 2 /\ eager_binary /\ BinaryRan) =>
        /\ Prec(2) > Prec(1) =>
              /\ pc # "failed"
              /\ expr = Binary(Leaf(1), 2, Binary(Leaf(3), 4, Leaf(5)))
              /\ pos = 5
        /\ (Prec(2) < Prec(1) \/ (Prec(2) = Prec(1) /\ is_assoc(OpAt(2)))) =>
              /\ pc # "failed"
              /\ expr = Binary(Binary(Leaf(1), 2, Leaf(3)), 4, Leaf(5))
              /\ pos = 5

\* `1 + 2 * 3` has been parsed as `1 + (2 * 3)`.
PrecedenceGroupingWitness ==
    /\ pc = "done"
    /\ tokens = <<"1", "+", "1", "*", "1">>
    /\ expr.rhs.tag = "ExprBinary"
    /\ expr.op = "Add"

\* Operators i < j of a flat chain meet at one nesting level, as tight as
\* each other, with only tighter ones between them, and the first is not
\* associative.
Clash(i, j) ==
    /\ i < j
    /\ Prec(i) = Prec(j)
    /\ ~is_assoc(OpAt(2 * i))
    /\ \A m \in (i + 1)..(j - 1) : Prec(m) > Prec(i)

Clashes == {ij \in (1..NumOps) \X (1..NumOps) : Clash(ij[1], ij[2])}

\* The clash the parser comes to first: the one whose second operator is
\* the leftmost.
FirstClash == CHOOSE ij \in Clashes : \A other \in Clashes : ij[2] <= other[2]

\* The place at which the left-hand side of operator i begins: after the
\* last operator before it that binds looser.
LhsStart(i) ==
    LET looser == {m \in 1..(i - 1) : Prec(m) < Prec(i)}
    IN  IF looser = {} THEN 1
        ELSE 2 * (CHOOSE m \in looser : \A n \in looser : n <= m) + 1

\* C2: two operators of equal precedence at one nesting level, the first not
\* associative, make parse_binary fail with PrecedenceGroupRequired, also with
\* tighter operators between them; the span joins the left-hand side gathered
\* so far with the right-hand side parsed so far.
TieBreakRejected ==
    (IsFlatChain /\ eager_binary /\ BinaryRan /\ Clashes # {}) =>
        /\ pc = "failed"
        /\ error.kind = "PrecedenceGroupRequired"
        /\ error.span = <<LhsStart(FirstClash[1]), 2 * FirstClash[2] - 1>>

\* `a == 1 + a == 1` has been rejected with the span of `a == 1 + a`.
TieBreakRejectedWitness ==
    /\ pc = "failed"
    /\ tokens = <<"a", "==", "1", "+", "a", "==", "1">>
    /\ error = [kind |-> "PrecedenceGroupRequired", span |-> <<1, 5>>]

(***************************************************************************)
(* Properties of whole parses: helpers that read the tree and the tokens.  *)
(***************************************************************************)
WrapperTags ==
    {"ExprIndex", "ExprCall", "ExprTry", "ExprFieldAccess", "ExprAwait", "ExprAssign"}

LoopTags == {"ExprWhile", "ExprLoop", "ExprFor"}

\* The node a postfix wrapper wraps.
Target(e) ==
    CASE e.tag = "ExprIndex" -> e.target
      [] e.tag = "ExprAssign" -> e.lhs
      [] OTHER -> e.expr

\* The postfix wrapper inside e that wraps b directly, NoExpr if there is none.
RECURSIVE WrapperOf(_, _)
WrapperOf(e, b) ==
    IF e.tag \notin WrapperTags THEN NoExpr
    ELSE IF Target(e) = b THEN e
    ELSE WrapperOf(Target(e), b)

ItemExprs(d) == {d.items[i].expr : i \in DOMAIN d.items}

\* The child expressions of a node.
Children(e) ==
    CASE e.tag \in {"Path", "Item", "MacroCall", "ExprSelect"} -> {}
      [] e.tag = "ExprLit" -> IF e.lit.lit = "Tuple" THEN ItemExprs(e.lit) ELSE {}
      [] e.tag \in {"ExprGroup", "ExprUnary", "ExprLet", "ExprMatch", "ExprTry",
                    "ExprAwait", "ExprFieldAccess"} -> {e.expr}
      [] e.tag = "ExprClosure" -> {e.body}
      [] e.tag = "ExprWhile" -> {e.condition} \cup ItemExprs(e.body)
      [] e.tag = "ExprLoop" -> ItemExprs(e.body)
      [] e.tag = "ExprFor" -> {e.iter} \cup ItemExprs(e.body)
      [] e.tag = "ExprIf" ->
            {e.condition} \cup ItemExprs(e.block)
                \cup UNION {ItemExprs(e.expr_else[i].block) : i \in DOMAIN e.expr_else}
      [] e.tag = "ExprBlock" -> ItemExprs(e.block)
      [] e.tag \in {"ExprBreak", "ExprYield", "ExprReturn"} ->
            IF e.expr.some THEN {e.expr.value} ELSE {}
      [] e.tag = "ExprIndex" -> {e.target, e.index}
      [] e.tag = "ExprCall" -> {e.expr} \cup ItemExprs(e.args)
      [] e.tag \in {"ExprAssign", "ExprBinary"} -> {e.lhs, e.rhs}

\* Every node of a tree.
RECURSIVE SubExprs(_)
SubExprs(e) == {e} \cup UNION {SubExprs(c) : c \in Children(e)}

\* The operands of the top-level chain of a tree: what is left when binary
\* nodes, unary prefixes and postfix wrappers are taken apart.
RECURSIVE Primaries(_)
Primaries(e) ==
    CASE e.tag = "ExprBinary" -> Primaries(e.lhs) \cup Primaries(e.rhs)
      [] e.tag = "ExprUnary" -> Primaries(e.expr)
      [] e.tag \in WrapperTags -> Primaries(Target(e))
      [] OTHER -> {e}

RECURSIVE LeftMost(_)
LeftMost(e) == IF e.tag = "ExprBinary" THEN LeftMost(e.lhs) ELSE e

\* The place of the last token of the node parse_base returned.
BaseEnd == span(base)[2]

\* The node parse_chain was handed: the base node, its attributes taken by the
\* first wrapper.
Wrapped == take_attributes(base).node

(***************************************************************************)
(* Brace eagerness                                                         *)
(***************************************************************************)
FlatKinds ==
    Idents \cup {"1", "::", "#[attr]", "-", "+", "*", "==", "<", "&&", "is", "not"}

OperatorKinds == {"+", "-", "*", "==", "<", "&&", "is"}

Braces == {j \in 1..Len(tokens) : tokens[j] = "{"}

FirstBrace == CHOOSE j \in Braces : \A m \in Braces : j <= m

\* The place at which the path ending at place k begins.
RECURSIVE PathStart(_)
PathStart(k) ==
    IF k >= 3 /\ tokens[k - 1] = "::" /\ tokens[k - 2] \in Idents
    THEN PathStart(k - 2)
    ELSE k

PathEndingAt(k) == [i \in 1..(k - PathStart(k) + 1) |-> Tok(PathStart(k) + i - 1)]

\* The first `{` of the stream follows a path that is the head operand, the
\* operand of a unary prefix or a right-hand operand of the top-level binary
\* chain, and the parse comes to it.
PathBeforeBrace ==
    /\ Braces # {}
    /\ FirstBrace >= 2
    /\ tokens[FirstBrace - 1] \in Idents
    /\ \A i \in 1..(FirstBrace - 1) : tokens[i] \in FlatKinds
    /\ eager_binary \/ \A i \in 2..(FirstBrace - 1) : tokens[i] \notin OperatorKinds

\* C3: with brace eagerness false, a path that is the head operand, the operand
\* of a unary prefix or a right-hand operand of the top-level binary chain and
\* is followed by `{` is returned as a plain Path and the `{` is not consumed;
\* with brace eagerness true the path and the braces are an object literal keyed
\* by that path.
BraceEagerness ==
    (pc = "done" /\ PathBeforeBrace) =>
        LET path == PathEndingAt(FirstBrace - 1)
            plain == [tag |-> "Path", path |-> path]
        IN  IF eager_brace
            THEN /\ plain \notin Primaries(expr)
                 /\ \E n \in Primaries(expr) :
                       /\ n.tag = "ExprLit"
                       /\ n.lit.lit = "Object"
                       /\ n.lit.ident = path
                       /\ n.lit.tokens = path \o <<Tok(FirstBrace), Tok(FirstBrace + 1)>>
                 /\ pos > FirstBrace
            ELSE /\ plain \in Primaries(expr)
                 /\ \A n \in Primaries(expr) : n.tag = "ExprLit" => n.lit.lit # "Object"
                 /\ pos = FirstBrace - 1

\* `a == a { }` parsed without eager brace: the right-hand operand is the
\* plain path and the parse has stopped before the `{`.
BraceEagernessWitness ==
    /\ pc = "done"
    /\ PathBeforeBrace
    /\ ~eager_brace
    /\ eager_binary
    /\ expr.tag = "ExprBinary"
    /\ expr.rhs = [tag |-> "Path", path |-> <<Tok(FirstBrace - 1)>>]
    /\ pos = FirstBrace - 1

(***************************************************************************)
(* The postfix chain                                                       *)
(***************************************************************************)
\* C4: is_chainable is false for while, loop and for and true for every other
\* variant; parse_chain holding a while, loop or for node before a `[` or a `(`
\* consumes nothing and returns the node as it is; holding any other node it
\* consumes a `[` as an index of the node and a `(` as a call of it.
ChainabilityBoundary ==
    /\ \A t \in ExprTags : is_chainable([tag |-> t]) = (t \notin LoopTags)
    /\ (base # NoExpr /\ pc # "chain" /\ base.tag \in LoopTags
            /\ Nth(BaseEnd, 0) \in {"[", "("}) =>
          /\ pc # "failed"
          /\ chained = base
          /\ expr = base
          /\ pos = BaseEnd
    /\ (chained # NoExpr /\ base.tag \notin LoopTags /\ Nth(BaseEnd, 0) = "[") =>
          LET w == WrapperOf(chained, Wrapped)
          IN  /\ w.tag = "ExprIndex"
              /\ w.target = Wrapped
              /\ w.open = Tok(BaseEnd + 1)
              /\ w.close.kind = "]"
    /\ (chained # NoExpr /\ base.tag \notin LoopTags /\ Nth(BaseEnd, 0) = "(") =>
          LET w == WrapperOf(chained, Wrapped)
          IN  /\ w.tag = "ExprCall"
              /\ w.expr = Wrapped
              /\ w.args.open = Tok(BaseEnd + 1)

\* `for a in b { } [ 1 ]`: the parse is done with the for node alone, the
\* cursor before the `[`.
ChainabilityBoundaryWitness ==
    /\ pc = "done"
    /\ base.tag = "ExprFor"
    /\ Nth(BaseEnd, 0) = "["
    /\ expr = base
    /\ pos = BaseEnd
    /\ pos < Len(tokens)

\* The chain begins with a `.` that is no await.
FieldStep == base # NoExpr /\ Nth(BaseEnd, 0) = "." /\ Nth(BaseEnd, 1) # "await"

PlainIdentField == Nth(BaseEnd, 1) \in Idents /\ Nth(BaseEnd, 2) \notin {"::", "!"}

NumberField == Nth(BaseEnd, 1) = "1"

\* The place at which the path beginning at place k ends.
RECURSIVE PathEnd(_)
PathEnd(k) ==
    IF Nth(k, 0) = "::" /\ Nth(k, 1) \in Idents THEN PathEnd(k + 2) ELSE k

\* The forms after the `.` that are no field, and the span of each.
OtherField ==
    \/ Nth(BaseEnd, 1) \in Idents /\ Nth(BaseEnd, 2) = "::" /\ Nth(BaseEnd, 3) \in Idents
    \/ /\ Nth(BaseEnd, 1) \in Idents
       /\ Nth(BaseEnd, 2) = "!" /\ Nth(BaseEnd, 3) = "(" /\ Nth(BaseEnd, 4) = ")"
    \/ Nth(BaseEnd, 1) \in {"str", "true"}
    \/ Nth(BaseEnd, 1) = "(" /\ Nth(BaseEnd, 2) = "1" /\ Nth(BaseEnd, 3) = ")"

OtherFieldSpan ==
    CASE Nth(BaseEnd, 1) \in Idents /\ Nth(BaseEnd, 2) = "::" ->
            <<BaseEnd + 2, PathEnd(BaseEnd + 2)>>
      [] Nth(BaseEnd, 1) \in Idents /\ Nth(BaseEnd, 2) = "!" ->
            <<BaseEnd + 2, BaseEnd + 5>>
      [] Nth(BaseEnd, 1) = "(" -> <<BaseEnd + 2, BaseEnd + 4>>
      [] OTHER -> <<BaseEnd + 2, BaseEnd + 2>>

\* C5: after a `.` that is no await, a single identifier gives a named field
\* access on the current node and a number a tuple-index field access; a path
\* of several segments, a macro call, another literal or a group fails with
\* UnsupportedFieldAccess and the span of that form.  After a field access the
\* chain and the binary climb go on: `a . 1 + 1` is Binary(FieldAccess(a, 1), +, 1).
FieldAccessClassified ==
    /\ (FieldStep /\ pc \notin {"start", "base", "chain"}) =>
          /\ (PlainIdentField \/ NumberField) =>
                /\ chained # NoExpr =>
                      LET w == WrapperOf(chained, Wrapped)
                      IN  /\ w.tag = "ExprFieldAccess"
                          /\ w.expr = Wrapped
                          /\ w.dot = Tok(BaseEnd + 1)
                          /\ w.expr_field =
                                [field |-> IF NumberField THEN "LitNumber" ELSE "Ident",
                                 token |-> Tok(BaseEnd + 2)]
                /\ chained = NoExpr =>
                      ~(error.kind = "UnsupportedFieldAccess"
                            /\ error.span[1] = BaseEnd + 2)
          /\ OtherField =>
                /\ pc = "failed"
                /\ chained = NoExpr
                /\ error = [kind |-> "UnsupportedFieldAccess", span |-> OtherFieldSpan]
    /\ (pc = "done" /\ eager_binary /\ chained.tag = "ExprFieldAccess"
            /\ BinOp_from_peeker(span(chained)[2]) # <<>>) =>
          /\ expr.tag = "ExprBinary"
          /\ LeftMost(expr) = chained

\* `a . 1 + 1` is Binary(FieldAccess(a, 1), +, 1).
FieldAccessClassifiedWitness ==
    /\ pc = "done"
    /\ tokens = <<"a", ".", "1", "+", "1">>
    /\ expr.tag = "ExprBinary"
    /\ expr.op = "Add"
    /\ expr.lhs.tag = "ExprFieldAccess"
    /\ expr.lhs.expr_field = [field |-> "LitNumber", token |-> Tok(3)]
    /\ expr.lhs.expr = [tag |-> "Path", path |-> <<Tok(1)>>]

(***************************************************************************)
(* Round trip                                                              *)
(***************************************************************************)
\* The tokens the parse consumed.
Consumed == [i \in 1..pos |-> Tok(i)]

\* C7: when a parse succeeds, the tokens of the tree it returns, emitted in
\* field order, are the tokens the parse consumed, each once and in order.
RoundTrip == pc = "done" => ToTokens(expr) = Consumed

\* An attributed literal under two postfix wrappers: the attribute has moved
\* to the outer one and the tree gives back the whole stream.
RoundTripWitness ==
    /\ pc = "done"
    /\ eager_brace /\ eager_binary
    /\ expr.tag = "ExprTry"
    /\ expr.expr.tag = "ExprIndex"
    /\ attributes(expr) # <<>>
    /\ attributes(base) # <<>>
    /\ pos = Len(tokens)
    /\ ToTokens(expr) = Consumed

(***************************************************************************)
(* Labels and `async` before a form                                        *)
(***************************************************************************)
\* The cursor after the leading attributes.
RECURSIVE AttrsFrom(_)
AttrsFrom(p) == IF Nth(p, 0) = "#[attr]" THEN AttrsFrom(p + 1) ELSE p

AttrEnd == AttrsFrom(0)

HasLabel == Nth(AttrEnd, 0) = "'l" /\ Nth(AttrEnd, 1) = ":"

AfterLabel == IF HasLabel THEN AttrEnd + 2 ELSE AttrEnd

HasAsync == Nth(AfterLabel, 0) = "async"

FormAt == IF HasAsync THEN AfterLabel + 1 ELSE AfterLabel

FormKind == Nth(FormAt, 0)

\* The tokens parse_base has a form for.
FormKinds ==
    {"||", "|", "select", "while", "loop", "for", "let", "if", "match", "(", "{",
     "break", "yield", "return"} \cup UnaryKinds

LoopKinds == {"while", "loop", "for"}

AsyncKinds == {"||", "|", "{"}

\* The form at FormAt parses.
FormParses == dispatch(FormAt, <<>>, <<>>, <<>>, eager_brace).r.ok

BaseFailed == pc = "failed" /\ base = NoExpr

\* C9: a label is accepted by while, loop and for only, an `async` by a closure
\* or a block only.  When the form after them parses: a label before any other
\* form is UnsupportedLabel, also when an `async` is left over as well; an
\* `async` before a form that is neither closure nor block is UnsupportedAsync.
\* A parse_base that returns a node after a label returns a while, loop or for
\* node holding the label, and after an `async` a closure or block node holding
\* the token.
ModifiersChecked ==
    pc \notin {"start", "base"} =>
        /\ (HasLabel /\ FormKind \in FormKinds \ LoopKinds /\ FormParses) =>
              /\ BaseFailed
              /\ error = [kind |-> "UnsupportedLabel",
                          span |-> <<AttrEnd + 1, AttrEnd + 2>>]
        /\ (HasAsync /\ FormKind \in FormKinds \ AsyncKinds /\ FormParses
                /\ (HasLabel => FormKind \in LoopKinds)) =>
              /\ BaseFailed
              /\ error = [kind |-> "UnsupportedAsync",
                          span |-> <<AfterLabel + 1, AfterLabel + 1>>]
        /\ ((HasLabel \/ HasAsync) /\ FormKind \notin FormKinds) =>
              /\ BaseFailed
              /\ error.kind = "Expected"
        /\ (base # NoExpr /\ HasLabel) =>
              /\ base.tag \in LoopTags
              /\ base.label = <<Tok(AttrEnd + 1), Tok(AttrEnd + 2)>>
        /\ (base # NoExpr /\ HasAsync) =>
              /\ base.tag \in {"ExprClosure", "ExprBlock"}
              /\ base.async_token = <<Tok(AfterLabel + 1)>>

\* A label and an `async` before an if: the label is the one reported.
ModifiersCheckedWitness ==
    /\ BaseFailed
    /\ HasLabel
    /\ HasAsync
    /\ FormKind = "if"
    /\ FormParses
    /\ error.kind = "UnsupportedLabel"

(***************************************************************************)
(* What the postfix wrappers wrap                                          *)
(***************************************************************************)
\* C10 as stated: every postfix wrapper of a tree parse_chain returns wraps a
\* node for which is_chainable is true.
WrappersOnlyOnChainable ==
    chained # NoExpr =>
        \A w \in SubExprs(chained) : w.tag \in WrapperTags => is_chainable(Target(w))

\* C10: an index or a call never wraps a while, loop or for node, anywhere in
\* a tree the parser returns; a try, an assignment, a field access and an await
\* wrap the node before them whatever it is, a while, loop or for node included.
IndexAndCallOnlyOnChainable ==
    /\ chained # NoExpr =>
          \A w \in SubExprs(chained) :
              w.tag \in {"ExprIndex", "ExprCall"} => Target(w).tag \notin LoopTags
    /\ pc = "done" =>
          \A w \in SubExprs(expr) :
              w.tag \in {"ExprIndex", "ExprCall"} => Target(w).tag \notin LoopTags
    /\ (chained # NoExpr /\ base.tag \in LoopTags) =>
          LET w == WrapperOf(chained, Wrapped)
          IN  /\ Nth(BaseEnd, 0) = "?" => w.tag = "ExprTry" /\ w.expr = Wrapped
              /\ Nth(BaseEnd, 0) = "=" => w.tag = "ExprAssign" /\ w.lhs = Wrapped
              /\ (Nth(BaseEnd, 0) = "." /\ Nth(BaseEnd, 1) = "await") =>
                    w.tag = "ExprAwait" /\ w.expr = Wrapped
              /\ (Nth(BaseEnd, 0) = "." /\ Nth(BaseEnd, 1) # "await") =>
                    w.tag = "ExprFieldAccess" /\ w.expr = Wrapped

\* `loop { } ?` is a try of the loop, and an index in the same stream wraps
\* the try.
IndexAndCallOnlyOnChainableWitness ==
    /\ pc = "done"
    /\ base.tag = "ExprLoop"
    /\ chained.tag = "ExprIndex"
    /\ chained.target.tag = "ExprTry"
    /\ chained.target.expr = base

(***************************************************************************)
(* Binary eagerness                                                        *)
(***************************************************************************)
\* An operator stands right after the node parse_chain returned.
OperatorAhead == chained # NoExpr /\ BinOp_from_peeker(span(chained)[2]) # <<>>

\* C11 as stated: parse_without_eager_brace returns the primary expression
\* and its postfix chain, the cursor before a binary operator that follows.
ConditionStopsBeforeOperator ==
    (~eager_brace /\ chained # NoExpr) =>
        LET r == parse_without_eager_brace(0)
        IN  r.ok => r.expr = chained /\ r.pos = span(chained)[2]

\* C11: parse_without_eager_brace and parse take in the binary tail: with an
\* operator after the chain, what they return is a binary node whose leftmost
\* operand is the chain.  A parse_with entered with eager_binary false takes
\* in no operator: it returns the chain as it is, the cursor right after it,
\* and nothing after the chain fails but the attribute check.
BinaryEagerness ==
    /\ (~eager_brace /\ OperatorAhead) =>
          LET r == parse_without_eager_brace(0)
          IN  r.ok =>
                /\ r.expr.tag = "ExprBinary"
                /\ LeftMost(r.expr) = chained
                /\ r.pos > span(chained)[2]
    /\ (eager_brace /\ OperatorAhead) =>
          LET r == parse(0)
          IN  r.ok => r.expr.tag = "ExprBinary" /\ LeftMost(r.expr) = chained
    /\ (~eager_binary /\ pc \in {"check", "done"}) =>
          /\ expr = chained
          /\ pos = span(chained)[2]
    /\ (~eager_binary /\ pc = "failed" /\ chained # NoExpr) =>
          error.kind = "AttributesNotSupported"

\* `a + 1` entered with the flags of parse_without_eager_brace is the sum;
\* the operator has been consumed.
BinaryEagernessWitness ==
    /\ pc = "done"
    /\ ~eager_brace
    /\ eager_binary
    /\ tokens = <<"a", "+", "1">>
    /\ parse_without_eager_brace(0) = Ok(expr, pos)
    /\ expr.tag = "ExprBinary"
    /\ pos = 3

(***************************************************************************)
(* Leading attributes                                                      *)
(***************************************************************************)
\* The attributes the stream begins with.
LeadingAttributes == [i \in 1..AttrEnd |-> Tok(i)]

\* The binary tail after the chain parses.
TailParses ==
    parse_tail(span(chained)[2], chained, eager_brace, eager_binary).ok

\* C12: parse_with fails with AttributesNotSupported exactly when the stream
\* begins with attributes, the primary form is a plain path, which leaves them
\* untaken, and the primary, its chain and the binary tail have all parsed;
\* the span is that of the attribute list.  An error of the chain or of the
\* tail is returned in its place.
AttributesChecked ==
    /\ base # NoExpr =>
          pending_attributes = IF base.tag = "Path" THEN LeadingAttributes ELSE <<>>
    /\ (pc = "failed" /\ error.kind = "AttributesNotSupported") =>
          /\ AttrEnd > 0
          /\ base.tag = "Path"
          /\ chained # NoExpr
          /\ TailParses
          /\ error.span = <<1, AttrEnd>>
          /\ pos = parse_tail(span(chained)[2], chained, eager_brace, eager_binary).pos
    /\ (pc \in {"done", "failed"} /\ AttrEnd > 0 /\ base.tag = "Path") =>
          /\ pc = "failed"
          /\ (chained # NoExpr /\ TailParses) =>
                error = [kind |-> "AttributesNotSupported", span |-> <<1, AttrEnd>>]
          /\ (chained = NoExpr \/ ~TailParses) =>
                error.kind \in {"UnsupportedFieldAccess", "PrecedenceGroupRequired",
                                "TokenMismatch", "Expected"}
    /\ pc = "done" => AttrEnd = 0 \/ base.tag # "Path"

\* `#[attr] #[attr] a + 1`: the path left the attributes untaken, the sum
\* has been parsed, and the error carries the span of the two attributes.
AttributesCheckedWitness ==
    /\ pc = "failed"
    /\ AttrEnd = 2
    /\ base.tag = "Path"
    /\ expr.tag = "ExprBinary"
    /\ pos = Len(tokens)
    /\ pending_attributes = LeadingAttributes
    /\ error = [kind |-> "AttributesNotSupported", span |-> <<1, 2>>]

\* C13: each wrap step of parse_chain moves the attributes of the node it
\* wraps to the wrapper, so in the tree of a successful parse the leading
\* attributes stand once, in order, on the outermost node of the postfix chain
\* built on the first primary form, and every other node of the tree, the
\* wrapped ones included, has none.
AttributesOnOutermost ==
    pc = "done" =>
        /\ LeftMost(expr) = chained
        /\ attributes(chained) = LeadingAttributes
        /\ attributes(base) = LeadingAttributes
        /\ \A n \in SubExprs(expr) \ {chained} : attributes(n) = <<>>
        /\ chained \in SubExprs(expr)
        /\ chained.tag \in WrapperTags =>
              /\ attributes(Target(chained)) = <<>>
              /\ WrapperOf(chained, Wrapped) # NoExpr

\* Two attributes before a literal under a postfix wrapper, with a binary
\* tail: both stand on the wrapper, none on the literal or the binary node.
AttributesOnOutermostWitness ==
    /\ pc = "done"
    /\ AttrEnd = 2
    /\ expr.tag = "ExprBinary"
    /\ chained.tag \in WrapperTags
    /\ Len(attributes(chained)) = 2
    /\ attributes(Target(chained)) = <<>>
    /\ attributes(expr) = <<>>
    /\ Len(attributes(base)) = 2

(***************************************************************************)
(* Expr::peek against Expr::parse                                          *)
(***************************************************************************)
\* parse_base has dispatched on the first token of the stream.
DispatchedOnFirst ==
    /\ pc \notin {"start", "base"}
    /\ AttrEnd = 0
    /\ ~HasLabel
    /\ ~HasAsync
    /\ FormKind \in FormKinds

\* C14: on every first token parse_base has a form for, peek is true; put the
\* other way, a stream peek is false on is one Expr::parse fails on.
PeekAgreesWithParse ==
    /\ DispatchedOnFirst => peek(0)
    /\ (pc = "done" /\ eager_brace /\ eager_binary) => peek(0)

====
